---------------------------- MODULE Spec2Model ----------------------------
(***************************************************************************)
(* Agro Planner backend: the scheduler coordinator (app/scheduler.py), the *)
(* synchronization run it drives and the store the run writes              *)
(* (app/crud.py, app/models.py).                                           *)
(*                                                                         *)
(* Python values are modelled as follows.  An Optional value is a sequence *)
(* of length at most one: None is << >> and a present value v is <<v>>.    *)
(* A dict (a JSON object of the vendor API, a normalised row) is a         *)
(* function from its keys; a key the dict does not hold is outside DOMAIN. *)
(* A table of the store is a function from the primary keys of its rows.   *)
(***************************************************************************)
EXTENDS Integers, Sequences, FiniteSets, TLC

(***************************************************************************)
(* Bounds of the model.                                                    *)
(***************************************************************************)
\* Synchronization runs (tasks) created in one behaviour.
MaxRuns == 2
\* Largest reading of the process clock.
MaxTime == 1

(***************************************************************************)
(* Program constants and input domains.                                    *)
(***************************************************************************)
\* Settings.scheduler_interval_seconds default.
DefaultInterval == 300
\* SCHEDULER_INTERVAL_SECONDS as the test environment sets it.
TestInterval == 0
\* Values the process can be configured with.
ConfiguredIntervals == {TestInterval, DefaultInterval}
\* Arguments of update_interval (an unvalidated int of the request).
UpdateSeconds == {0, 300}

None == << >>
Some(v) == <<v>>
\* dict.get(key): None when the key is missing.
Get(d, k) == IF k \in DOMAIN d THEN d[k] ELSE None
\* dict.get(key, default)
GetOr(d, k, default) == IF k \in DOMAIN d THEN d[k] ELSE default

\* The process-wide session factory (database.get_sessionmaker).
Factory == "session_factory"
SessionFactories == {None, Some(Factory)}

(***************************************************************************)
(* The vendor API's answers.  The vendor is the environment: each fetch    *)
(* answers with one of these bodies.                                       *)
(***************************************************************************)
ValidIso == {"2024-01-01T00:00:00Z"}

EquipmentA ==
  [id |-> "m1", displayName |-> Some("Tractor"), category |-> Some("tractor"),
   serialNumber |-> Some("SN1"), status |-> Some("active"),
   lastUpdated |-> Some("2024-01-01T00:00:00Z"),
   location |-> Some([latitude |-> Some(10), longitude |-> Some(20)])]

FieldA ==
  [id |-> "f1", name |-> Some("Campo 1"), cropType |-> Some("soja"),
   modifiedTime |-> Some("2024-01-01T00:00:00Z")]

FieldB == [id |-> "f1", boundary |-> Some("poly")]

EquipmentResponses == { [values |-> <<EquipmentA>>] }

FieldsResponses == { [values |-> <<FieldA>>], [values |-> <<FieldB>>] }

(***************************************************************************)
(* State.                                                                  *)
(***************************************************************************)
VARIABLES
  _scheduler,         \* None or Some(i): the module global, i indexes schedulers
  _session_factory,   \* None or Some(Factory)
  _interval_seconds,  \* the module global
  _last_run_summary,  \* [last_run, machines_synced, fields_synced]
  schedulers,         \* every AsyncIOScheduler constructed: [running, sync_job]
  runs,               \* every _sync_entities task created, in creation order
  machines,           \* committed rows of table machines
  fields,             \* committed rows of table fields
  ledger,             \* committed rows of table scheduler_runs, in commit order
  seq,                \* last value of the scheduler_runs id sequence
  now,                \* last reading of the process clock
  called,             \* the latest call of start_scheduler, stop_scheduler,
                      \* update_interval or lifespan's startup: [op, result],
                      \* result the exception it raised or the path it
                      \* returned by
  _access_token,      \* JohnDeereClient._access_token: None or Some(token)
  _token_expires_at,  \* JohnDeereClient._token_expires_at, in seconds
  clock,              \* time.time(), in seconds
  issued,             \* tokens the vendor's auth endpoint has issued
  calls,              \* every call of _request on the client, in call order
  users,              \* committed rows of table users, in insertion order
  work_plans,         \* committed rows of table work_plans
  plan_seq,           \* last value of the work_plans id sequence
  db_url,             \* the database of settings.db_url: "sqlite", "postgresql"
  requests,           \* every call of an HTTP endpoint, in call order
  upstream,           \* the vendor's collections and the page size it serves
  listed              \* what list_equipment and list_fields last returned

\* The state of one JohnDeereClient and of the calls made on it.
gateway == <<_access_token, _token_expires_at, clock, issued, calls>>

\* The tables and the callers of the HTTP endpoints, and the vendor's
\* collections.
api == <<users, work_plans, plan_seq, db_url, requests, upstream, listed>>

\* The same but for the calls of the endpoints.
tables == <<users, work_plans, plan_seq, db_url, upstream, listed>>

\* The state of the scheduler, the store and the application.
backend == <<_scheduler, _session_factory, _interval_seconds, _last_run_summary,
             schedulers, runs, machines, fields, ledger, seq, now, called>>

vars == <<_scheduler, _session_factory, _interval_seconds, _last_run_summary,
          schedulers, runs, machines, fields, ledger, seq, now, called,
          _access_token, _token_expires_at, clock, issued, calls,
          users, work_plans, plan_seq, db_url, requests, upstream, listed>>

store == <<machines, fields, ledger>>


(***************************************************************************)
(* Normalisation of the vendor's records (scheduler.py).                   *)
(***************************************************************************)
\* datetime.fromisoformat of an Optional string: None when absent or unparsable.
_parse_datetime(value) ==
  IF value = None THEN None
  ELSE IF value[1] \in ValidIso THEN value ELSE None

\* (item.get("location") or {}).get(key)
location_get(item, key) ==
  LET loc == Get(item, "location")
  IN  IF loc = None THEN None ELSE Get(loc[1], key)

\* One element of machine_values.
machine_value(item) ==
  [id |-> item.id,
   name |-> Get(item, "displayName"),
   category |-> Get(item, "category"),
   serial_number |-> Get(item, "serialNumber"),
   status |-> Get(item, "status"),
   last_update |-> _parse_datetime(Get(item, "lastUpdated")),
   latitude |-> location_get(item, "latitude"),
   longitude |-> location_get(item, "longitude")]

\* One element of field_values.
field_value(item) ==
  [id |-> item.id,
   name |-> GetOr(item, "name", Some("")),
   boundary |-> Get(item, "boundary"),
   crop_type |-> Get(item, "cropType"),
   updated_at |-> _parse_datetime(Get(item, "modifiedTime"))]

machine_values(machines_data) ==
  LET vs == GetOr(machines_data, "values", << >>)
  IN  [i \in 1..Len(vs) |-> machine_value(vs[i])]

field_values(fields_data) ==
  LET vs == GetOr(fields_data, "values", << >>)
  IN  [i \in 1..Len(vs) |-> field_value(vs[i])]

(***************************************************************************)
(* Upserts (crud.py).  A session's view of a table is [rows, new, count]:  *)
(* rows are the rows as the session sees them, new the primary keys it has *)
(* added (INSERT on flush), count the value the upsert returns.            *)
(***************************************************************************)
Columns(item) == [k \in DOMAIN item \ {"id"} |-> item[k]]

Put(rows, id, row) == [k \in DOMAIN rows \cup {id} |-> IF k = id THEN row ELSE rows[k]]

\* upsert_machines' loop body keeping a stored value where the payload's is
\* null (db_machine.name = item.get("name") or db_machine.name, and so on).
upsert_machine_skips_nulls(view, item) ==
  IF item.id \in DOMAIN view.rows
  THEN [view EXCEPT !.rows = Put(view.rows, item.id,
                        [k \in DOMAIN view.rows[item.id] |->
                           IF Get(item, k) = None
                           THEN view.rows[item.id][k] ELSE item[k]]),
                    !.count = @ + 1]
  ELSE [rows |-> Put(view.rows, item.id, Columns(item)),
        new |-> view.new \cup {item.id},
        count |-> view.count + 1]

\* The body of upsert_machines' loop for one item.
upsert_machine(view, item) ==
  IF item.id \in DOMAIN view.rows
  THEN [view EXCEPT !.rows = Put(view.rows, item.id,
                        [name |-> Get(item, "name"),
                         category |-> Get(item, "category"),
                         serial_number |-> Get(item, "serial_number"),
                         status |-> Get(item, "status"),
                         latitude |-> Get(item, "latitude"),
                         longitude |-> Get(item, "longitude"),
                         last_update |-> Get(item, "last_update")]),
                    !.count = @ + 1]
  ELSE [rows |-> Put(view.rows, item.id, Columns(item)),
        new |-> view.new \cup {item.id},
        count |-> view.count + 1]

\* The body of upsert_fields' loop for one item.
upsert_field(view, item) ==
  IF item.id \in DOMAIN view.rows
  THEN [view EXCEPT !.rows = Put(view.rows, item.id,
                        [name |-> GetOr(item, "name", view.rows[item.id].name),
                         boundary |-> Get(item, "boundary"),
                         crop_type |-> Get(item, "crop_type"),
                         updated_at |-> Get(item, "updated_at")]),
                    !.count = @ + 1]
  ELSE [rows |-> Put(view.rows, item.id, Columns(item)),
        new |-> view.new \cup {item.id},
        count |-> view.count + 1]

RECURSIVE upsert_machines_loop(_, _, _)
upsert_machines_loop(view, items, i) ==
  IF i > Len(items) THEN view
  ELSE upsert_machines_loop(upsert_machine(view, items[i]), items, i + 1)

RECURSIVE upsert_fields_loop(_, _, _)
upsert_fields_loop(view, items, i) ==
  IF i > Len(items) THEN view
  ELSE upsert_fields_loop(upsert_field(view, items[i]), items, i + 1)

\* upsert_machines(session, machines) on a session that sees the rows `rows`.
upsert_machines(rows, items) ==
  upsert_machines_loop([rows |-> rows, new |-> {}, count |-> 0], items, 1)

\* upsert_fields(session, fields)
upsert_fields(rows, items) ==
  upsert_fields_loop([rows |-> rows, new |-> {}, count |-> 0], items, 1)


(***************************************************************************)
(* The scheduler coordinator (scheduler.py).                               *)
(***************************************************************************)
no_call == [op |-> "", result |-> ""]

ClockReads == { t \in now..(now + 1) : t <= MaxTime }

\* A task of _sync_entities still between its creation and its end.
InFlightPcs == {"created", "fetching", "fetched", "flushed"}
InFlight(r) == runs[r].pc \in InFlightPcs

\* IntervalTrigger(seconds=seconds), the trigger of the sync job: it fires
\* every interval_length seconds. APScheduler's constructor replaces an
\* interval of length zero by one second.
IntervalTrigger(seconds) ==
  [interval_length |-> IF seconds = 0 THEN 1 ELSE seconds]

\* A task of _sync_entities: origin says what created it, sched is the
\* scheduler whose executor holds it (None for asyncio.create_task).
new_run(origin, sched) ==
  [origin |-> origin, sched |-> sched, pc |-> "created",
   eq |-> "-", fl |-> "-", session |-> None]

\* is_running answering from what the store remembers as well.
is_running_persisted ==
  (_scheduler # None /\ schedulers[_scheduler[1]].running) \/ ledger # << >>

is_running == _scheduler # None /\ schedulers[_scheduler[1]].running

\* configure(session_factory), as start_scheduler calls it.
configure(session_factory) ==
  IF session_factory # None THEN session_factory ELSE _session_factory

\* The dict get_status returns, read in the state the call leaves.
status ==
  [running |-> is_running,
   interval_seconds |-> _interval_seconds,
   last_run |-> _last_run_summary.last_run,
   machines_synced |-> _last_run_summary.machines_synced,
   fields_synced |-> _last_run_summary.fields_synced]

\* Line 122: the scheduler is running, nothing is done.
start_already_running ==
  /\ called' = [op |-> "start_scheduler", result |-> "already_running"]
  /\ UNCHANGED <<_scheduler, schedulers, runs>>

\* Line 124: no session factory was ever configured.
start_misconfigured ==
  /\ called' = [op |-> "start_scheduler", result |-> "RuntimeError"]
  /\ UNCHANGED <<_scheduler, schedulers, runs>>

\* start_new without the asyncio.create_task of line 129.
start_new_without_run ==
  /\ Len(runs) < MaxRuns
  /\ schedulers' = Append(schedulers,
                      [running |-> TRUE,
                       sync_job |-> Some(IntervalTrigger(_interval_seconds))])
  /\ _scheduler' = Some(Len(schedulers) + 1)
  /\ runs' = runs
  /\ called' = [op |-> "start_scheduler", result |-> "started"]

\* Lines 125-130: a new scheduler with the sync job at the stored interval is
\* started and one run is created outside the timer (asyncio.create_task).
start_new ==
  /\ Len(runs) < MaxRuns
  /\ schedulers' = Append(schedulers,
                      [running |-> TRUE,
                       sync_job |-> Some(IntervalTrigger(_interval_seconds))])
  /\ _scheduler' = Some(Len(schedulers) + 1)
  /\ runs' = Append(runs, new_run("immediate", None))
  /\ called' = [op |-> "start_scheduler", result |-> "started"]

\* start_scheduler without the running check of line 121.
start_scheduler_unguarded(session_factory) ==
  /\ _session_factory' = configure(session_factory)
  /\ IF configure(session_factory) = None THEN start_misconfigured ELSE start_new
  /\ UNCHANGED <<_interval_seconds, _last_run_summary, machines, fields,
                 ledger, seq, now, gateway, tables>>

\* start_scheduler without the session factory check of line 123.
start_scheduler_unchecked(session_factory) ==
  /\ _session_factory' = configure(session_factory)
  /\ IF is_running THEN start_already_running ELSE start_new
  /\ UNCHANGED <<_interval_seconds, _last_run_summary, machines, fields,
                 ledger, seq, now, gateway, tables>>

start_scheduler(session_factory) ==
  /\ _session_factory' = configure(session_factory)
  /\ IF is_running THEN start_already_running
     ELSE IF configure(session_factory) = None THEN start_misconfigured
     ELSE start_new
  /\ UNCHANGED <<_interval_seconds, _last_run_summary, machines, fields,
                 ledger, seq, now, gateway, tables>>

\* Job futures the executor of scheduler i still holds.
PendingJobs(i) ==
  { r \in 1..Len(runs) : runs[r].sched = Some(i) /\ InFlight(r) }

\* A cancelled task: the fetches it awaits are cancelled with it and its
\* session, if open, is closed without commit.
cancel(run) ==
  [run EXCEPT !.pc = "cancelled", !.eq = "-", !.fl = "-", !.session = None]

\* stop_scheduler without the shutdown call of line 136.
shutdown_not_called(i, cancelled) ==
  /\ schedulers' = schedulers
  /\ runs' = runs

\* _scheduler.shutdown(wait=False): the scheduler stops and drops its jobs; the
\* executor cancels job futures it still holds, and a cancellation reaches a
\* task only at its next suspension point, so any of them may be cancelled.
shutdown(i, cancelled) ==
  /\ schedulers' = [schedulers EXCEPT ![i] = [running |-> FALSE, sync_job |-> None]]
  /\ runs' = [r \in 1..Len(runs) |-> IF r \in cancelled THEN cancel(runs[r]) ELSE runs[r]]

\* A stop that waits for the runs in flight: it does nothing while one is.
stop_scheduler_waits ==
  /\ IF is_running /\ \E r \in 1..Len(runs) : InFlight(r)
     THEN UNCHANGED <<_scheduler, schedulers, runs>>
     ELSE /\ schedulers' = [i \in 1..Len(schedulers) |->
                              [running |-> FALSE, sync_job |-> None]]
          /\ _scheduler' = None
          /\ runs' = runs
  /\ called' = [op |-> "stop_scheduler", result |-> "stopped"]
  /\ UNCHANGED <<_session_factory, _interval_seconds, _last_run_summary,
                 machines, fields, ledger, seq, now, gateway, tables>>

stop_scheduler ==
  /\ IF is_running
     THEN /\ \E cancelled \in SUBSET PendingJobs(_scheduler[1]) :
               shutdown(_scheduler[1], cancelled)
          /\ called' = [op |-> "stop_scheduler", result |-> "stopped"]
     ELSE /\ UNCHANGED <<schedulers, runs>>
          /\ called' = [op |-> "stop_scheduler", result |-> "not_running"]
  /\ _scheduler' = None
  /\ UNCHANGED <<_session_factory, _interval_seconds, _last_run_summary,
                 machines, fields, ledger, seq, now, gateway, tables>>

\* job.reschedule(trigger=IntervalTrigger(seconds=seconds))
reschedule(i, seconds) ==
  [schedulers EXCEPT ![i].sync_job = Some(IntervalTrigger(seconds))]

\* update_interval without the reschedule of line 147.
update_interval_stored_only(seconds) ==
  /\ _interval_seconds' = seconds
  /\ called' = [op |-> "update_interval", result |-> "stored"]
  /\ UNCHANGED <<_scheduler, _session_factory, _last_run_summary, schedulers,
                 runs, machines, fields, ledger, seq, now, gateway, tables>>

update_interval(seconds) ==
  /\ _interval_seconds' = seconds
  /\ schedulers' = IF _scheduler # None
                   THEN reschedule(_scheduler[1], seconds)
                   ELSE schedulers
  /\ called' = [op |-> "update_interval",
                result |-> IF _scheduler # None THEN "rescheduled" ELSE "stored"]
  /\ UNCHANGED <<_scheduler, _session_factory, _last_run_summary, runs,
                 machines, fields, ledger, seq, now, gateway, tables>>

\* get_scheduler_runs with ORDER BY last_run ASC: rows[0] is an oldest row.
FirstRows_oldest(rows) ==
  { i \in 1..Len(rows) : \A j \in 1..Len(rows) : rows[i].last_run <= rows[j].last_run }

\* crud.get_scheduler_runs: ORDER BY last_run DESC; rows[0] is a row of the
\* largest last_run (the order of rows of equal last_run is the database's).
FirstRows(rows) ==
  { i \in 1..Len(rows) : \A j \in 1..Len(rows) : rows[j].last_run <= rows[i].last_run }

get_status ==
  /\ IF ledger # << >>
     THEN \E i \in FirstRows(ledger) :
            _last_run_summary' =
              [last_run |-> Some(ledger[i].last_run),
               machines_synced |-> ledger[i].machines_synced,
               fields_synced |-> ledger[i].fields_synced]
     ELSE UNCHANGED _last_run_summary
  /\ UNCHANGED <<_scheduler, _session_factory, _interval_seconds, schedulers,
                 runs, machines, fields, ledger, seq, now, called, gateway, tables>>

\* A job that goes on firing after its scheduler was shut down.
tick_after_shutdown(i) ==
  /\ PendingJobs(i) = {}
  /\ Len(runs) < MaxRuns
  /\ runs' = Append(runs, new_run("tick", Some(i)))
  /\ UNCHANGED <<_scheduler, _session_factory, _interval_seconds,
                 _last_run_summary, schedulers, machines, fields, ledger,
                 seq, now, called, gateway, api>>

\* A tick that no longer fires once a run has ended in failure.
tick_unless_failed(i) ==
  /\ schedulers[i].running /\ schedulers[i].sync_job # None
  /\ PendingJobs(i) = {}
  /\ \A r \in 1..Len(runs) : runs[r].pc \notin {"aborted", "failed"}
  /\ Len(runs) < MaxRuns
  /\ runs' = Append(runs, new_run("tick", Some(i)))
  /\ UNCHANGED <<_scheduler, _session_factory, _interval_seconds,
                 _last_run_summary, schedulers, machines, fields, ledger,
                 seq, now, called, gateway, api>>

\* The interval job of scheduler i fires.  A job runs one instance at a time
\* (add_job's max_instances default): a firing while one is pending is skipped.
tick(i) ==
  /\ schedulers[i].running /\ schedulers[i].sync_job # None
  /\ PendingJobs(i) = {}
  /\ Len(runs) < MaxRuns
  /\ runs' = Append(runs, new_run("tick", Some(i)))
  /\ UNCHANGED <<_scheduler, _session_factory, _interval_seconds,
                 _last_run_summary, schedulers, machines, fields, ledger,
                 seq, now, called, gateway, api>>


(***************************************************************************)
(* One synchronization run: the steps of _sync_entities between its        *)
(* suspension points.                                                      *)
(***************************************************************************)
set_run(r, run) == runs' = [runs EXCEPT ![r] = run]

\* Lines 61-68: the guard on the session factory, then gather() is awaited.
sync_begin(r) ==
  /\ runs[r].pc = "created"
  /\ IF _session_factory = None
     THEN set_run(r, [runs[r] EXCEPT !.pc = "returned"])
     ELSE set_run(r, [runs[r] EXCEPT !.pc = "fetching",
                                     !.eq = "pending", !.fl = "pending"])
  /\ UNCHANGED <<_scheduler, _session_factory, _interval_seconds,
                 _last_run_summary, schedulers, machines, fields, ledger,
                 seq, now, called, gateway, api>>

\* gather() returns once both fetches have answered.
gathered(run) ==
  IF run.eq = "ok" /\ run.fl = "ok" THEN [run EXCEPT !.pc = "fetched"] ELSE run

\* client.list_equipment() answers.
fetch_equipment_ok(r) ==
  /\ runs[r].pc = "fetching" /\ runs[r].eq = "pending"
  /\ set_run(r, gathered([runs[r] EXCEPT !.eq = "ok"]))
  /\ UNCHANGED <<_scheduler, _session_factory, _interval_seconds,
                 _last_run_summary, schedulers, machines, fields, ledger,
                 seq, now, called, gateway, api>>

\* client.list_fields() answers.
fetch_fields_ok(r) ==
  /\ runs[r].pc = "fetching" /\ runs[r].fl = "pending"
  /\ set_run(r, gathered([runs[r] EXCEPT !.fl = "ok"]))
  /\ UNCHANGED <<_scheduler, _session_factory, _interval_seconds,
                 _last_run_summary, schedulers, machines, fields, ledger,
                 seq, now, called, gateway, api>>

\* gather(return_exceptions=True): the failure is one more result.
fetch_failure_ignored(run) == [run EXCEPT !.pc = "fetched"]

\* Lines 69-71: gather() raises the first httpx.HTTPError; the run logs it
\* and returns.
fetch_failed(run) == [run EXCEPT !.pc = "aborted"]

fetch_equipment_fail(r) ==
  /\ runs[r].pc = "fetching" /\ runs[r].eq = "pending"
  /\ set_run(r, fetch_failed([runs[r] EXCEPT !.eq = "fail"]))
  /\ UNCHANGED <<_scheduler, _session_factory, _interval_seconds,
                 _last_run_summary, schedulers, machines, fields, ledger,
                 seq, now, called, gateway, api>>

fetch_fields_fail(r) ==
  /\ runs[r].pc = "fetching" /\ runs[r].fl = "pending"
  /\ set_run(r, fetch_failed([runs[r] EXCEPT !.fl = "fail"]))
  /\ UNCHANGED <<_scheduler, _session_factory, _interval_seconds,
                 _last_run_summary, schedulers, machines, fields, ledger,
                 seq, now, called, gateway, api>>

\* What a session holds for a table once an upsert has run: the rows it wrote.
written(view, items) ==
  [rows |-> [k \in { items[i].id : i \in 1..Len(items) } |-> view.rows[k]],
   new |-> view.new, count |-> view.count]

\* crud.create_scheduler_run: the row gets the sequence's next id and the
\* column default datetime.utcnow on flush.
create_scheduler_run(id, t, machines_synced, fields_synced) ==
  [id |-> id, last_run |-> t,
   machines_synced |-> machines_synced, fields_synced |-> fields_synced]

\* Lines 73-105: both bodies are normalised, a session is opened, the upserts
\* and the ledger row are flushed in the session's transaction.
sync_persist(r) ==
  /\ runs[r].pc = "fetched"
  /\ \E machines_data \in EquipmentResponses, fields_data \in FieldsResponses,
        t \in ClockReads :
       LET mv == machine_values(machines_data)
           fv == field_values(fields_data)
           m  == upsert_machines(machines, mv)
           f  == upsert_fields(fields, fv)
       IN  /\ set_run(r, [runs[r] EXCEPT
                 !.pc = "flushed",
                 !.session = Some([machines |-> written(m, mv),
                                   fields |-> written(f, fv),
                                   row |-> create_scheduler_run(seq + 1, t,
                                             m.count, f.count)])])
           /\ now' = t
  /\ seq' = seq + 1
  /\ UNCHANGED <<_scheduler, _session_factory, _interval_seconds,
                 _last_run_summary, schedulers, machines, fields, ledger,
                 called, gateway, api>>

\* The table after a transaction's writes are committed.
merge(table, writes) ==
  [k \in DOMAIN table \cup DOMAIN writes |->
     IF k \in DOMAIN writes THEN writes[k] ELSE table[k]]

\* A database whose tables have no primary key to violate.
never_conflicts(session) == FALSE

\* An INSERT of a primary key another transaction has committed meanwhile.
conflicts(session) ==
  \/ session.machines.new \cap DOMAIN machines # {}
  \/ session.fields.new \cap DOMAIN fields # {}

\* A commit that keeps one ledger row, the latest.
commit_replaces_ledger(session) ==
  /\ machines' = merge(machines, session.machines.rows)
  /\ fields' = merge(fields, session.fields.rows)
  /\ ledger' = <<session.row>>

\* A commit issued before create_scheduler_run: the ledger row is lost.
commit_upserts_only(session) ==
  /\ machines' = merge(machines, session.machines.rows)
  /\ fields' = merge(fields, session.fields.rows)
  /\ ledger' = ledger

\* session.commit(): everything the transaction wrote becomes visible at once.
commit(session) ==
  /\ machines' = merge(machines, session.machines.rows)
  /\ fields' = merge(fields, session.fields.rows)
  /\ ledger' = Append(ledger, session.row)

\* Lines 106-109: the commit, then the in-memory summary; a commit that
\* fails raises out of the run and the session is closed without it.
sync_commit(r) ==
  /\ runs[r].pc = "flushed"
  /\ LET session == runs[r].session[1]
     IN  IF conflicts(session)
         THEN /\ set_run(r, [runs[r] EXCEPT !.pc = "failed", !.session = None])
              /\ UNCHANGED <<_last_run_summary, machines, fields, ledger, now>>
         ELSE /\ commit(session)
              /\ \E t \in ClockReads :
                   /\ now' = t
                   /\ _last_run_summary' =
                        [last_run |-> Some(t),
                         machines_synced |-> session.machines.count,
                         fields_synced |-> session.fields.count]
              /\ set_run(r, [runs[r] EXCEPT !.pc = "done", !.session = None])
  /\ UNCHANGED <<_scheduler, _session_factory, _interval_seconds, schedulers,
                 seq, called, gateway, api>>

(***************************************************************************)
(* The specification.                                                      *)
(***************************************************************************)
\* JohnDeereClient.__init__: no token, and no call made yet.
new_client ==
  /\ _access_token = None
  /\ _token_expires_at = 0
  /\ clock = 0
  /\ issued = 0
  /\ calls = << >>

\* init_db on an empty database of the default DB_URL; no endpoint called yet
\* and nothing listed from the vendor.
new_deployment ==
  /\ users = << >>
  /\ work_plans = {}
  /\ plan_seq = 0
  /\ db_url = "sqlite"
  /\ requests = << >>
  /\ upstream = [equipment |-> << >>, fields |-> << >>, page_size |-> 1]
  /\ listed = [equipment |-> None, fields |-> None]

Init ==
  /\ _scheduler = None
  /\ _session_factory = None
  /\ _interval_seconds \in ConfiguredIntervals
  /\ _last_run_summary =
       [last_run |-> None, machines_synced |-> 0, fields_synced |-> 0]
  /\ schedulers = << >>
  /\ runs = << >>
  /\ machines = << >>
  /\ fields = << >>
  /\ ledger = << >>
  /\ seq = 0
  /\ now = 0
  /\ called = no_call
  /\ new_client
  /\ new_deployment

Next ==
  \/ \E session_factory \in SessionFactories :
       start_scheduler(session_factory) /\ UNCHANGED requests
  \/ stop_scheduler /\ UNCHANGED requests
  \/ \E seconds \in UpdateSeconds : update_interval(seconds) /\ UNCHANGED requests
  \/ get_status /\ UNCHANGED requests
  \/ \E i \in 1..Len(schedulers) : tick(i)
  \/ \E r \in 1..Len(runs) : sync_begin(r)
  \/ \E r \in 1..Len(runs) : fetch_equipment_ok(r)
  \/ \E r \in 1..Len(runs) : fetch_fields_ok(r)
  \/ \E r \in 1..Len(runs) : fetch_equipment_fail(r)
  \/ \E r \in 1..Len(runs) : fetch_fields_fail(r)
  \/ \E r \in 1..Len(runs) : sync_persist(r)
  \/ \E r \in 1..Len(runs) : sync_commit(r)

Spec == Init /\ [][Next]_vars


(***************************************************************************)
(* Properties.                                                             *)
(***************************************************************************)
RunIds == 1..Len(runs)

\* Scheduler objects whose sync job can still fire.
LiveTimers ==
  { i \in 1..Len(schedulers) : schedulers[i].running /\ schedulers[i].sync_job # None }

\* A run between its first fetch and its commit.
Syncing(r) == runs[r].pc \in {"fetching", "fetched", "flushed"}

\* Everything a coordinator call can leave alone, the record of the call aside.
program == <<_scheduler, _session_factory, _interval_seconds, _last_run_summary,
             schedulers, runs, machines, fields, ledger, seq, now, gateway, api>>

\* C1: at most one synchronization run is between its first fetch and its
\* commit, whatever created the runs (the immediate run of start, a timer
\* tick, several starts).
C1_RunsSerialized == Cardinality({ r \in RunIds : Syncing(r) }) <= 1

\* C2: the process holds at most one live periodic sync timer, and exactly
\* one if and only if status reports running.
C2_OneLiveTimer ==
  /\ Cardinality(LiveTimers) <= 1
  /\ Cardinality(LiveTimers) = 1 <=> status.running

\* A second scheduler object is running and its interval has been updated.
C2_Witness ==
  /\ status.running
  /\ Len(schedulers) = 2
  /\ called = [op |-> "update_interval", result |-> "rescheduled"]

\* C3: start while RUNNING is a no-op: no second timer, no further immediate
\* run, the interval and the existing timer as they were.
C3_StartIdempotent ==
  [][ \A session_factory \in SessionFactories :
        (is_running /\ start_scheduler(session_factory))
          => /\ UNCHANGED program
             /\ called'.result = "already_running" ]_vars

\* start has returned by the running check while a run of the first start is
\* in flight.
C3_Witness ==
  /\ called = [op |-> "start_scheduler", result |-> "already_running"]
  /\ is_running
  /\ Len(schedulers) = 1
  /\ \E r \in RunIds : InFlight(r)

C5_StartMisconfigured ==
  [][ (~is_running /\ _session_factory = None /\ start_scheduler(None))
        => /\ called'.result = "RuntimeError"
           /\ ~status'.running
           /\ LiveTimers' = {}
           /\ UNCHANGED program ]_vars

\* start has raised in a process that never had a session factory.
C5_Witness ==
  /\ called = [op |-> "start_scheduler", result |-> "RuntimeError"]
  /\ _session_factory = None
  /\ schedulers = << >>
  /\ runs = << >>

\* C6: stop leaves the coordinator STOPPED and is a no-op when it is already;
\* from then until the next start status reports running = false, also while
\* a run created before the stop is in flight.
C6_StopThenStatus ==
  [][ /\ stop_scheduler => (~status'.running /\ LiveTimers' = {})
      /\ (~is_running /\ stop_scheduler) => UNCHANGED program
      /\ (~status.running /\ status'.running)
           => \E session_factory \in SessionFactories :
                start_scheduler(session_factory) ]_vars

\* The coordinator has been stopped and the run its start created has since
\* flushed its writes: status reports running = false.
C6_Witness ==
  /\ called = [op |-> "stop_scheduler", result |-> "stopped"]
  /\ ~status.running
  /\ schedulers # << >>
  /\ \E r \in RunIds : runs[r].pc = "flushed"

\* C7: stop does not cancel a run in flight, whether the immediate run or a
\* timer tick created it: every such run is after the stop as it was before.
C7_StopKeepsRunsInFlight ==
  [][ stop_scheduler => \A r \in RunIds : InFlight(r) => runs'[r] = runs[r] ]_vars

C9_AtomicCommit ==
  [][ store' # store
        => \E r \in RunIds :
             /\ runs[r].pc = "flushed" /\ runs'[r].pc = "done"
             /\ LET session == runs[r].session[1]
                IN  /\ ledger' = Append(ledger, session.row)
                    /\ DOMAIN machines' = DOMAIN machines \cup DOMAIN session.machines.rows
                    /\ DOMAIN fields' = DOMAIN fields \cup DOMAIN session.fields.rows
                    /\ \A k \in DOMAIN session.machines.rows :
                         machines'[k] = session.machines.rows[k]
                    /\ \A k \in DOMAIN session.fields.rows :
                         fields'[k] = session.fields.rows[k] ]_vars

\* A run that upserted a machine and a field has committed, and a second run
\* holds flushed writes that are not visible.
C9_Witness ==
  /\ ledger # << >>
  /\ ledger[1].machines_synced = 1 /\ ledger[1].fields_synced = 1
  /\ DOMAIN machines = {"m1"} /\ DOMAIN fields = {"f1"}
  /\ \E r \in RunIds : runs[r].pc = "flushed"

\* C10: a run one of whose fetches failed is aborted, never opens a session
\* and changes no table of the store, also when its other fetch succeeded.
C10_FetchFailureWritesNothing ==
  [][ \A r \in 1..Len(runs') :
        (runs'[r].eq = "fail" \/ runs'[r].fl = "fail")
          => /\ runs'[r].pc = "aborted"
             /\ runs'[r].session = None
             /\ (r <= Len(runs) /\ runs'[r] # runs[r]) => store' = store ]_vars

\* A run is aborted by its fields fetch after its equipment fetch succeeded,
\* with rows of an earlier run in the store.
C10_Witness ==
  /\ \E r \in RunIds :
       runs[r].pc = "aborted" /\ runs[r].eq = "ok" /\ runs[r].fl = "fail"
  /\ DOMAIN machines # {} /\ DOMAIN fields # {}
  /\ ledger # << >>

\* A run that ended in failure: its fetch failed (a gateway error or a
\* timeout, both httpx.HTTPError) or its transaction did.
Failed(r) == runs[r].pc \in {"aborted", "failed"}

\* C11: a run whose persistence fails writes no ledger row and no upserts, and
\* it ends by logging the failure and returning, as a run whose fetch failed
\* does, not by raising out of _sync_entities.
C11_PersistenceFailureLogged ==
  [][ \A r \in RunIds :
        (runs[r].pc = "flushed" /\ runs'[r].pc \notin {"flushed", "done", "cancelled"})
          => /\ store' = store
             /\ runs'[r].pc = "aborted" ]_vars

\* C12: a run that ends in failure leaves the coordinator as it was, RUNNING
\* with its timer live if it was, and the timer's next tick can start a run.
C12_FailureKeepsTimer ==
  /\ [][ \A r \in RunIds :
          (InFlight(r) /\ Failed(r)')
            => /\ _scheduler' = _scheduler
               /\ schedulers' = schedulers
               /\ LiveTimers' = LiveTimers
               /\ status'.running = status.running ]_vars
  /\ [](\A i \in LiveTimers :
          ((\E r \in RunIds : Failed(r)) /\ PendingJobs(i) = {} /\ Len(runs) < MaxRuns)
            => ENABLED tick(i))

\* The run of a tick was aborted by a gateway error and the coordinator is
\* running with the timer that fired it.
C12_Witness ==
  /\ is_running
  /\ \E r \in RunIds :
       /\ runs[r].origin = "tick" /\ runs[r].pc = "aborted"
       /\ LiveTimers = {runs[r].sched[1]}

\* C13: status reports the timestamp and counts of a ledger row of the latest
\* timestamp whenever the ledger has rows; with an empty ledger it reports the
\* summary held in memory, which is then null/0/0.
C13_StatusFromLedger ==
  /\ [][ get_status =>
          IF ledger = << >>
          THEN /\ status'.last_run = status.last_run
               /\ status'.machines_synced = status.machines_synced
               /\ status'.fields_synced = status.fields_synced
          ELSE \E i \in 1..Len(ledger) :
                 /\ \A j \in 1..Len(ledger) : ledger[j].last_run <= ledger[i].last_run
                 /\ status'.last_run = Some(ledger[i].last_run)
                 /\ status'.machines_synced = ledger[i].machines_synced
                 /\ status'.fields_synced = ledger[i].fields_synced ]_vars
  /\ [](ledger = << >> =>
          /\ status.last_run = None
          /\ status.machines_synced = 0 /\ status.fields_synced = 0)

\* The only run so far flushed its row at time 0 and set the summary at time 1
\* after its commit; a status query has since put the row's time in its place.
C13_Witness ==
  /\ Len(ledger) = 1 /\ seq = 1 /\ now = 1
  /\ ledger[1].last_run = 0
  /\ status.last_run = Some(0)


(***************************************************************************)
(* The application process (main.py): it starts on the store that earlier   *)
(* processes persisted, runs lifespan's startup, serves the scheduler       *)
(* endpoints, and runs lifespan's shutdown.  The runs a start creates make  *)
(* no step here; Spec has their steps.                                      *)
(***************************************************************************)
\* Ledger rows persisted by earlier processes.
MaxPast == 2

\* Values an upsert returned to a run of an earlier process.
PastCounts == 0..1

\* The scheduler_runs table as earlier processes left it: ids come from the
\* sequence and last_run from the clock, both on flush, so a larger id never
\* has a smaller last_run.
PersistedLedgers ==
  UNION { { rows \in [1..n -> [id : 1..n, last_run : 0..MaxTime,
                               machines_synced : PastCounts,
                               fields_synced : PastCounts]] :
              /\ \A i \in 1..n : rows[i].id = i
              /\ \A i \in 1..n : \A j \in 1..n :
                   i < j => rows[i].last_run <= rows[j].last_run }
          : n \in 0..MaxPast }

\* The machines table after the runs that recorded `rows`.
PersistedMachines(rows) ==
  IF \E i \in 1..Len(rows) : rows[i].machines_synced > 0
  THEN upsert_machines(<< >>, machine_values([values |-> <<EquipmentA>>])).rows
  ELSE << >>

\* The fields table after the runs that recorded `rows`.
PersistedFields(rows) ==
  IF \E i \in 1..Len(rows) : rows[i].fields_synced > 0
  THEN upsert_fields(<< >>, field_values([values |-> <<FieldA>>])).rows
  ELSE << >>

\* The largest last_run of `rows`, 0 for none.
LastFlush(rows) ==
  IF rows = << >> THEN 0
  ELSE CHOOSE t \in 0..MaxTime :
         /\ \E i \in 1..Len(rows) : rows[i].last_run = t
         /\ \A i \in 1..Len(rows) : rows[i].last_run <= t

\* A process that has just imported the modules: the globals of scheduler.py
\* at their initial values, the store as persisted.
ProcessInit ==
  /\ _scheduler = None
  /\ _session_factory = None
  /\ _interval_seconds \in ConfiguredIntervals
  /\ _last_run_summary =
       [last_run |-> None, machines_synced |-> 0, fields_synced |-> 0]
  /\ schedulers = << >>
  /\ runs = << >>
  /\ ledger \in PersistedLedgers
  /\ machines = PersistedMachines(ledger)
  /\ fields = PersistedFields(ledger)
  /\ seq = Len(ledger)
  /\ now = LastFlush(ledger)
  /\ called = no_call
  /\ new_client
  /\ new_deployment

\* get_sessionmaker(): the process-wide factory.
get_sessionmaker == Some(Factory)

\* lifespan with the test `>= 0` in place of `> 0`.
lifespan_startup_always ==
  /\ called = no_call
  /\ start_scheduler(get_sessionmaker)
  /\ UNCHANGED requests

\* lifespan up to its yield.  Nothing has been called in the process, so
\* _interval_seconds still is settings.scheduler_interval_seconds.
lifespan_startup ==
  /\ called = no_call
  /\ IF _interval_seconds > 0
     THEN start_scheduler(get_sessionmaker)
     ELSE /\ called' = [op |-> "lifespan", result |-> "no_start"]
          /\ UNCHANGED program
  /\ UNCHANGED requests

\* lifespan's finally clause.
lifespan_shutdown ==
  /\ called # no_call
  /\ stop_scheduler
  /\ UNCHANGED requests

\* The application serves requests once lifespan has yielded.
serving == called # no_call

\* POST /scheduler/start up to its await of the status.
scheduler_start ==
  /\ serving
  /\ start_scheduler(get_sessionmaker)
  /\ UNCHANGED requests

\* POST /scheduler/interval up to its await of the status.
scheduler_interval ==
  /\ serving
  /\ \E seconds \in UpdateSeconds : update_interval(seconds)
  /\ UNCHANGED requests

\* scheduler_status(session), which every scheduler endpoint awaits.
scheduler_status ==
  /\ serving
  /\ get_status
  /\ UNCHANGED requests

ProcessNext ==
  \/ lifespan_startup
  \/ lifespan_shutdown
  \/ scheduler_start
  \/ scheduler_interval
  \/ scheduler_status

ProcessSpec == ProcessInit /\ [][ProcessNext]_vars

\* The summary status reports is that of ledger row i.
Reports(st, row) ==
  /\ st.last_run = Some(row.last_run)
  /\ st.machines_synced = row.machines_synced
  /\ st.fields_synced = row.fields_synced

\* C14: of ledger rows of the same timestamp, status treats the one of the
\* higher id as the most recent: the row it reports has the largest
\* (last_run, id).
C14_TieBrokenById ==
  [][ (get_status /\ ledger # << >>)
        => \E i \in 1..Len(ledger) :
             /\ \A j \in 1..Len(ledger) :
                  \/ ledger[j].last_run < ledger[i].last_run
                  \/ /\ ledger[j].last_run = ledger[i].last_run
                     /\ ledger[j].id <= ledger[i].id
             /\ Reports(status', ledger[i]) ]_vars

\* C15: in a process in which no start has been made, status reports
\* running = false, and its last-run timestamp and counts are those of a
\* ledger row persisted before the process started.
C15_RunningIsProcessLocal ==
  /\ [](schedulers = << >> => ~status.running)
  /\ [][ (schedulers = << >> /\ scheduler_status /\ ledger # << >>)
          => /\ ~status'.running
             /\ \E i \in 1..Len(ledger) :
                  /\ \A j \in 1..Len(ledger) : ledger[j].last_run <= ledger[i].last_run
                  /\ Reports(status', ledger[i]) ]_vars

\* Startup has made no start, the ledger holds two rows of earlier processes
\* and a status query has reported one of them.
C15_Witness ==
  /\ called = [op |-> "lifespan", result |-> "no_start"]
  /\ schedulers = << >>
  /\ Len(ledger) = 2
  /\ ~status.running
  /\ \E i \in 1..Len(ledger) : Reports(status, ledger[i])

\* C16: startup starts the coordinator exactly when the configured interval
\* is greater than zero; with 0 it makes no start, and status reports
\* running = false until POST /scheduler/start; shutdown leaves the
\* coordinator STOPPED.
C16_LifespanStartsOnPositiveInterval ==
  [][ /\ lifespan_startup
           => /\ status'.running <=> _interval_seconds > 0
              /\ _interval_seconds = 0 => UNCHANGED program
      /\ (~status.running /\ status'.running)
           => \/ lifespan_startup /\ _interval_seconds > 0
              \/ scheduler_start
      /\ lifespan_shutdown => (~status'.running /\ LiveTimers' = {}) ]_vars

\* The process was configured with interval 0 as the tests are, startup made
\* no start, and the interval has since been set to 300 without a start.
C16_Witness ==
  /\ called = [op |-> "update_interval", result |-> "stored"]
  /\ schedulers = << >>
  /\ status.interval_seconds = DefaultInterval
  /\ ~status.running


(***************************************************************************)
(* Synchronization runs one after the other: _sync_entities from its first  *)
(* line to its last with no other task between its steps, on answers of    *)
(* the vendor that differ in what they leave out.                          *)
(***************************************************************************)
\* Runs made in one behaviour.
MaxSyncs == 2

\* A record of machine m1 with nothing but its id and an unparsable time.
EquipmentB == [id |-> "m1", lastUpdated |-> Some("ayer"), location |-> None]

EquipmentBodies ==
  { [values |-> << >>], [values |-> <<EquipmentA>>], [values |-> <<EquipmentB>>] }

FieldBodies ==
  { [values |-> << >>], [values |-> <<FieldA>>], [values |-> <<FieldB>>] }

SyncInit ==
  /\ _scheduler = None
  /\ _session_factory = Some(Factory)
  /\ _interval_seconds \in ConfiguredIntervals
  /\ _last_run_summary =
       [last_run |-> None, machines_synced |-> 0, fields_synced |-> 0]
  /\ schedulers = << >>
  /\ runs = << >>
  /\ machines = << >>
  /\ fields = << >>
  /\ ledger = << >>
  /\ seq = 0
  /\ now = 0
  /\ called = no_call
  /\ new_client
  /\ new_deployment

\* Lines 61-109 when both fetches answer and the transaction commits: the
\* row is flushed at flushed_at, the summary is set at done_at.
run_once(machines_data, fields_data, flushed_at, done_at) ==
  /\ _session_factory # None
  /\ seq < MaxSyncs
  /\ LET mv == machine_values(machines_data)
         fv == field_values(fields_data)
         m  == upsert_machines(machines, mv)
         f  == upsert_fields(fields, fv)
     IN  /\ commit([machines |-> written(m, mv),
                    fields |-> written(f, fv),
                    row |-> create_scheduler_run(seq + 1, flushed_at,
                                                 m.count, f.count)])
         /\ _last_run_summary' =
              [last_run |-> Some(done_at),
               machines_synced |-> m.count, fields_synced |-> f.count]
  /\ seq' = seq + 1
  /\ now' = done_at
  /\ UNCHANGED <<_scheduler, _session_factory, _interval_seconds, schedulers,
                 runs, called, gateway, api>>

SyncNext ==
  \E machines_data \in EquipmentBodies, fields_data \in FieldBodies :
    \E flushed_at \in ClockReads :
      \E done_at \in { t \in flushed_at..(flushed_at + 1) : t <= MaxTime } :
        run_once(machines_data, fields_data, flushed_at, done_at)

SyncSpec == SyncInit /\ [][SyncNext]_vars

\* C17: a run that upserts a machine id that has a row leaves in the row the
\* payload's name, category, serial number, status, last update, latitude and
\* longitude, null where the payload's value is null; if the row held these
\* values already it is unchanged.
C17_MachineOverwritten ==
  [][ \A machines_data \in EquipmentBodies, fields_data \in FieldBodies :
        \A flushed_at \in 0..MaxTime, done_at \in 0..MaxTime :
          run_once(machines_data, fields_data, flushed_at, done_at)
            => \A i \in 1..Len(machines_data.values) :
                 LET item == machines_data.values[i]
                     row  == machines'[item.id]
                 IN  item.id \in DOMAIN machines
                       => /\ row.name = Get(item, "displayName")
                          /\ row.category = Get(item, "category")
                          /\ row.serial_number = Get(item, "serialNumber")
                          /\ row.status = Get(item, "status")
                          /\ row.last_update = machine_value(item).last_update
                          /\ row.latitude = location_get(item, "latitude")
                          /\ row.longitude = location_get(item, "longitude")
                          /\ machines[item.id] = Columns(machine_value(item))
                               => row = machines[item.id] ]_vars

\* Two runs have upserted machine m1 and the second payload held nulls only:
\* the row holds no name, no status and no position.
C17_Witness ==
  /\ Len(ledger) = 2
  /\ ledger[1].machines_synced = 1 /\ ledger[2].machines_synced = 1
  /\ "m1" \in DOMAIN machines
  /\ machines["m1"].name = None
  /\ machines["m1"].status = None
  /\ machines["m1"].latitude = None

\* C18: a run that upserts a field record with no name onto a row of a
\* non-empty name leaves the stored name as it was.
C18_FieldNamePreserved ==
  [][ \A machines_data \in EquipmentBodies, fields_data \in FieldBodies :
        \A flushed_at \in 0..MaxTime, done_at \in 0..MaxTime :
          run_once(machines_data, fields_data, flushed_at, done_at)
            => \A i \in 1..Len(fields_data.values) :
                 LET item == fields_data.values[i]
                 IN  (/\ "name" \notin DOMAIN item
                      /\ item.id \in DOMAIN fields
                      /\ fields[item.id].name \notin {None, Some("")})
                       => fields'[item.id].name = fields[item.id].name ]_vars


(***************************************************************************)
(* The vendor gateway (john_deere_client.py): one JohnDeereClient, the      *)
(* calls of _request made on it, which may overlap as the two fetches of a  *)
(* run do, and the vendor's answers.  A call is                             *)
(* [pc, reused, token_requests, attempts, bearer, bearer_expires_at,        *)
(* sent_at, status]: bearer is the token of its Authorization header,       *)
(* bearer_expires_at that token's expiry and sent_at the time when the      *)
(* header was built, status the last HTTP status it received (0: none).     *)
(***************************************************************************)
\* Calls of _request in one behaviour.
MaxCalls == 2
\* The time by which the clock stops.
MaxClock == 40

\* The margin of _authenticate's check, in seconds.
Margin == 30
\* expires_in when the token response has none.
DefaultExpiresIn == 3600

\* expires_in of a token response: missing, or a number of seconds.
ExpiresIn == {None, Some(20), Some(60)}
\* Seconds that pass while the process waits.
Delays == {25, 40}
\* HTTP status of an API response.
StatusCodes == {200, 401, 500}

\* Line 44 with no margin.
token_valid_no_margin == _access_token # None /\ clock < _token_expires_at

\* Line 44: a token is cached and is not within the margin of its expiry.
token_valid == _access_token # None /\ clock < _token_expires_at - Margin

new_call ==
  [pc |-> "called", reused |-> FALSE, token_requests |-> 0, attempts |-> 0,
   bearer |-> None, bearer_expires_at |-> 0, sent_at |-> 0, status |-> 0]

\* Lines 74-79: the headers are built from the cached token and the API
\* request is issued.
sent(call) ==
  [call EXCEPT !.pc = "awaiting_api", !.attempts = @ + 1,
               !.bearer = _access_token,
               !.bearer_expires_at = _token_expires_at,
               !.sent_at = clock]

\* Lines 45-51: the token request is issued.
token_requested(call) ==
  [call EXCEPT !.pc = "awaiting_token", !.token_requests = @ + 1]

\* _request is called: _authenticate returns at once on a valid token and the
\* API request goes out, or the token request goes out.
_request ==
  /\ Len(calls) < MaxCalls
  /\ calls' = Append(calls,
                 IF token_valid THEN sent([new_call EXCEPT !.reused = TRUE])
                 ELSE token_requested(new_call))
  /\ UNCHANGED <<_access_token, _token_expires_at, clock, issued, backend, api>>

\* A token response whose token is stored and whose expiry is not.
token_response_keeps_expiry(c, expires_in) ==
  /\ calls[c].pc = "awaiting_token"
  /\ issued' = issued + 1
  /\ _access_token' = Some(issued + 1)
  /\ _token_expires_at' = _token_expires_at
  /\ calls' = [calls EXCEPT ![c].pc = "authenticated"]
  /\ UNCHANGED <<clock, backend, api>>

\* Lines 52-58: the token response arrives with status 2xx; the token and
\* its expiry are stored.
token_response(c, expires_in) ==
  /\ calls[c].pc = "awaiting_token"
  /\ issued' = issued + 1
  /\ _access_token' = Some(issued + 1)
  /\ _token_expires_at' =
       clock + (IF expires_in = None THEN DefaultExpiresIn ELSE expires_in[1])
  /\ calls' = [calls EXCEPT ![c].pc = "authenticated"]
  /\ UNCHANGED <<clock, backend, api>>

\* Line 53: the token request fails; httpx raises out of _request.
token_failed(c) ==
  /\ calls[c].pc = "awaiting_token"
  /\ calls' = [calls EXCEPT ![c].pc = "failed"]
  /\ UNCHANGED <<_access_token, _token_expires_at, clock, issued, backend, api>>

\* _authenticate has returned after a token request (its client is closed,
\* a suspension point): the API request goes out.
send(c) ==
  /\ calls[c].pc = "authenticated"
  /\ calls' = [calls EXCEPT ![c] = sent(calls[c])]
  /\ UNCHANGED <<_access_token, _token_expires_at, clock, issued, backend, api>>

\* Lines 80-84: the API response arrives; raise_for_status raises on any
\* status that is not 2xx, else the body is returned.
api_response(c, status_code) ==
  /\ calls[c].pc = "awaiting_api"
  /\ calls' = [calls EXCEPT ![c].status = status_code,
                            ![c].pc = IF status_code = 200 THEN "returned"
                                      ELSE "failed"]
  /\ UNCHANGED <<_access_token, _token_expires_at, clock, issued, backend, api>>

\* Time passes while the process waits.
elapse(d) ==
  /\ clock + d <= MaxClock
  /\ clock' = clock + d
  /\ UNCHANGED <<_access_token, _token_expires_at, issued, calls, backend, api>>

\* A client on a process of default settings that has served nothing yet.
GatewayInit ==
  /\ Init
  /\ _interval_seconds = DefaultInterval

GatewayNext ==
  \/ _request
  \/ \E c \in 1..Len(calls) : \E expires_in \in ExpiresIn : token_response(c, expires_in)
  \/ \E c \in 1..Len(calls) : token_failed(c)
  \/ \E c \in 1..Len(calls) : send(c)
  \/ \E c \in 1..Len(calls) : \E status_code \in StatusCodes : api_response(c, status_code)
  \/ \E d \in Delays : elapse(d)

GatewaySpec == GatewayInit /\ [][GatewayNext]_vars

\* C19: a call of _request that has received HTTP 401 re-authenticates and
\* makes a second API attempt, so a call whose last status is 401 has made
\* two attempts and at least one token request after the first of them.
C19_RetriedOnce ==
  \A c \in 1..Len(calls) :
    calls[c].status = 401
      => /\ calls[c].attempts = 2
         /\ calls[c].token_requests >= 1

\* C20: a call of _request that finds a cached token with more than Margin
\* seconds left makes no token request and sends that token; any other call
\* makes a token request, and the answer to it is stored as the new token
\* with expiry = the time of storing + expires_in; a call that reused the
\* cached token has sent it with more than Margin seconds left.
C20_TokenReuse ==
  /\ [][ Len(calls') = Len(calls) + 1 =>
          LET call == calls'[Len(calls')] IN
          IF _access_token # None /\ _token_expires_at - clock > Margin
          THEN /\ call.token_requests = 0
               /\ call.pc = "awaiting_api"
               /\ call.bearer = _access_token
               /\ issued' = issued
               /\ _access_token' = _access_token
               /\ _token_expires_at' = _token_expires_at
          ELSE /\ call.token_requests = 1
               /\ call.pc = "awaiting_token"
               /\ call.attempts = 0 ]_vars
  /\ [][ \A c \in 1..Len(calls) :
            (calls[c].pc = "awaiting_token" /\ calls'[c].pc = "authenticated")
              => /\ _access_token' = Some(issued')
                 /\ issued' > issued
                 /\ \/ _token_expires_at' = clock' + DefaultExpiresIn
                    \/ \E e \in ExpiresIn \ {None} :
                         _token_expires_at' = clock' + e[1] ]_vars
  /\ [](\A c \in 1..Len(calls) :
          calls[c].reused
            => /\ calls[c].token_requests = 0
               /\ calls[c].bearer # None
               /\ calls[c].bearer_expires_at - calls[c].sent_at > Margin)

\* The second call, 25 s after a token of 60 s was stored, reuses it.
C20_Witness ==
  /\ Len(calls) = 2
  /\ calls[1].token_requests = 1
  /\ calls[2].reused
  /\ calls[2].pc = "returned"
  /\ calls[2].bearer = Some(1)
  /\ calls[2].bearer_expires_at = 60
  /\ calls[2].sent_at = 25


(***************************************************************************)
(* Listing the vendor's collections (john_deere_client.py).  A collection  *)
(* is the sequence of its records, a record standing for itself as its     *)
(* position; the vendor serves a collection in pages of at most page_size  *)
(* records and reports the size of the collection as total.                *)
(***************************************************************************)
\* Records of a vendor collection.
MaxItems == 3

\* list_equipment's default item_limit.
ItemLimit == 100

Collections == { [i \in 1..n |-> i] : n \in 0..MaxItems }
PageSizes == {1, 2, ItemLimit}

Min(a, b) == IF a <= b THEN a ELSE b

\* The body of the vendor's answer to a GET of a collection from page_offset
\* on, with at most item_limit records asked for.
page(collection, page_offset, item_limit) ==
  [raised |-> FALSE,
   values |-> SubSeq(collection, page_offset + 1,
                     Min(Len(collection),
                         page_offset + Min(item_limit, upstream.page_size))),
   total |-> Len(collection)]

\* _request raises (httpx.HTTPError) instead of returning a body.
raised == [raised |-> TRUE, values |-> << >>, total |-> 0]

\* list_equipment: one GET /equipment with pageOffset and itemLimit; what
\* _request returns is returned.
list_equipment(page_offset, item_limit) ==
  /\ \E body \in {page(upstream.equipment, page_offset, item_limit), raised} :
       listed' = [listed EXCEPT !.equipment = Some(body)]
  /\ UNCHANGED <<users, work_plans, plan_seq, db_url, requests, upstream,
                 gateway, backend>>

\* list_fields: one GET /fields with the organization only; the vendor pages
\* by its own page size.
list_fields ==
  /\ \E body \in {page(upstream.fields, 0, upstream.page_size), raised} :
       listed' = [listed EXCEPT !.fields = Some(body)]
  /\ UNCHANGED <<users, work_plans, plan_seq, db_url, requests, upstream,
                 gateway, backend>>

\* scheduler.py as imported under default settings, before any call, over an
\* empty store.
new_process ==
  /\ _scheduler = None
  /\ _session_factory = None
  /\ _interval_seconds = DefaultInterval
  /\ _last_run_summary =
       [last_run |-> None, machines_synced |-> 0, fields_synced |-> 0]
  /\ schedulers = << >>
  /\ runs = << >>
  /\ machines = << >>
  /\ fields = << >>
  /\ ledger = << >>
  /\ seq = 0
  /\ now = 0
  /\ called = no_call

\* A new client and a vendor holding any two collections.
ListingInit ==
  /\ new_process
  /\ new_client
  /\ users = << >>
  /\ work_plans = {}
  /\ plan_seq = 0
  /\ db_url = "sqlite"
  /\ requests = << >>
  /\ upstream \in [equipment : Collections, fields : Collections,
                   page_size : PageSizes]
  /\ listed = [equipment |-> None, fields |-> None]

ListingNext ==
  \/ list_equipment(0, ItemLimit)
  \/ list_fields

ListingSpec == ListingInit /\ [][ListingNext]_vars

\* C21: what list_equipment and list_fields return holds every record of the
\* vendor's collection, whatever the number of pages it is served in.
C21_AllPagesReturned ==
  /\ (listed.equipment # None /\ ~listed.equipment[1].raised)
       => listed.equipment[1].values = upstream.equipment
  /\ (listed.fields # None /\ ~listed.fields[1].raised)
       => listed.fields[1].values = upstream.fields


(***************************************************************************)
(* Registration (main.py, register_user).  A request is                    *)
(* [op, caller, payload, current_user, pc, code]: caller is the user name  *)
(* of its bearer token (None without a token), current_user the role that  *)
(* get_optional_user resolved, code the HTTP status of its response (0     *)
(* while it is served).  A request is served on a session of its own, and  *)
(* each of its awaits is a step other requests can interleave with; every  *)
(* statement reads the rows committed by then.                             *)
(***************************************************************************)
\* Calls of POST /auth/register in one behaviour.
MaxRegistrations == 2

Usernames == {"ana", "oto"}
Roles == {"admin", "operator"}
\* The bearer token of a request: none, or one issued to a user name.
Callers == {None} \cup { Some(u) : u \in Usernames }

\* crud.get_user_by_username: the rows of that user name.
get_user_by_username(username) ==
  { i \in 1..Len(users) : users[i].username = username }

\* get_optional_user: None without a token or for a user name with no row,
\* else the role stored for it.
get_optional_user(caller) ==
  IF caller = None \/ get_user_by_username(caller[1]) = {} THEN None
  ELSE Some(users[CHOOSE i \in get_user_by_username(caller[1]) : TRUE].role)

set_request(q, request) == requests' = [requests EXCEPT ![q] = request]

\* The request arrives and its dependencies are resolved.
register_user(caller, payload) ==
  /\ Len(requests) < MaxRegistrations
  /\ requests' = Append(requests,
       [op |-> "register", caller |-> caller, payload |-> payload,
        current_user |-> get_optional_user(caller),
        pc |-> "authenticated", code |-> 0])
  /\ UNCHANGED <<users, work_plans, plan_seq, db_url, upstream, listed,
                 gateway, backend>>

\* Lines 164-166: the users are counted; with a user stored, a caller that is
\* not an ADMIN is answered 403.
register_count(q) ==
  /\ requests[q].op = "register" /\ requests[q].pc = "authenticated"
  /\ LET total_users == Len(users)
         current_user == requests[q].current_user
     IN IF total_users # 0 /\ (current_user = None \/ current_user # Some("admin"))
        THEN set_request(q, [requests[q] EXCEPT !.pc = "forbidden", !.code = 403])
        ELSE set_request(q, [requests[q] EXCEPT !.pc = "counted"])
  /\ UNCHANGED <<users, work_plans, plan_seq, db_url, upstream, listed,
                 gateway, backend>>

\* Lines 167-169: a stored user of the same name is answered 400.
register_lookup(q) ==
  /\ requests[q].op = "register" /\ requests[q].pc = "counted"
  /\ IF get_user_by_username(requests[q].payload.username) # {}
     THEN set_request(q, [requests[q] EXCEPT !.pc = "exists", !.code = 400])
     ELSE set_request(q, [requests[q] EXCEPT !.pc = "looked_up"])
  /\ UNCHANGED <<users, work_plans, plan_seq, db_url, upstream, listed,
                 gateway, backend>>

\* Lines 170-176: the row is inserted and committed; the unique index on
\* username makes the insert raise when a row of that name was committed
\* since the lookup.
register_commit(q) ==
  /\ requests[q].op = "register" /\ requests[q].pc = "looked_up"
  /\ IF get_user_by_username(requests[q].payload.username) # {}
     THEN /\ set_request(q, [requests[q] EXCEPT !.pc = "conflict", !.code = 500])
          /\ users' = users
     ELSE /\ users' = Append(users,
                        [id |-> Len(users) + 1,
                         username |-> requests[q].payload.username,
                         role |-> requests[q].payload.role])
          /\ set_request(q, [requests[q] EXCEPT !.pc = "created", !.code = 201])
  /\ UNCHANGED <<work_plans, plan_seq, db_url, upstream, listed,
                 gateway, backend>>

\* An empty user store, on either database.
RegisterInit ==
  /\ new_process
  /\ new_client
  /\ users = << >>
  /\ work_plans = {}
  /\ plan_seq = 0
  /\ db_url \in {"sqlite", "postgresql"}
  /\ requests = << >>
  /\ upstream = [equipment |-> << >>, fields |-> << >>, page_size |-> 1]
  /\ listed = [equipment |-> None, fields |-> None]

RegisterNext ==
  \/ \E caller \in Callers : \E payload \in [username : Usernames, role : Roles] :
       register_user(caller, payload)
  \/ \E q \in 1..Len(requests) : register_count(q)
  \/ \E q \in 1..Len(requests) : register_lookup(q)
  \/ \E q \in 1..Len(requests) : register_commit(q)

RegisterSpec == RegisterInit /\ [][RegisterNext]_vars

\* C22: of the users stored, at most one was created by a request that
\* get_optional_user resolved to no user.
C22_OneUnauthenticatedUser ==
  Cardinality({ q \in 1..Len(requests) :
                  /\ requests[q].op = "register"
                  /\ requests[q].pc = "created"
                  /\ requests[q].current_user = None }) <= 1


(***************************************************************************)
(* The work-plan and scheduler endpoints (main.py).  A request is          *)
(* [op, caller, payload, pc, code, body, plans, mirror]: code is the HTTP  *)
(* status of its response (0 while it is served), body the plan it         *)
(* returns, plans the list it returns, mirror the outcome of its vendor    *)
(* mirror call ("none" when it made none).  The dependencies of an         *)
(* endpoint are resolved before its body runs; the body runs without       *)
(* interleaving up to its mirror call, whose return is a step of its own.  *)
(***************************************************************************)
\* Calls of the work-plan and scheduler endpoints in one behaviour.
MaxRequests == 2

\* Payloads of POST /work-plans: dates in order with no status, equal dates
\* with an empty status, a status given, dates out of order, a field_id with
\* no row.
PlanPayloads ==
  { [field_id |-> "f1", type |-> "SIEMBRA", start_date |-> 1, end_date |-> 2,
     status |-> None],
    [field_id |-> "f1", type |-> "SIEMBRA", start_date |-> 1, end_date |-> 1,
     status |-> Some("")],
    [field_id |-> "f1", type |-> "COSECHA", start_date |-> 1, end_date |-> 2,
     status |-> Some("done")],
    [field_id |-> "f1", type |-> "SIEMBRA", start_date |-> 2, end_date |-> 1,
     status |-> None],
    [field_id |-> "f9", type |-> "SIEMBRA", start_date |-> 1, end_date |-> 1,
     status |-> None] }

\* Plan ids a request names in its path.
PlanIds == 1..2

\* Payloads of PUT /work-plans/{plan_id}.
UpdateStatuses == {"completed"}

\* get_current_user: None stands for the AuthenticationError raised without
\* a token or for a user name with no row, else the role stored.
get_current_user(caller) == get_optional_user(caller)

\* require_role letting every authenticated caller through.
require_role_authenticated(required, caller) ==
  IF get_current_user(caller) = None THEN 401 ELSE 0

\* require_role(required): the status the dependency raises, 0 when it lets
\* the caller through.
require_role(required, caller) ==
  IF get_current_user(caller) = None THEN 401
  ELSE IF /\ get_current_user(caller) # Some(required)
          /\ get_current_user(caller) # Some("admin") THEN 403
  ELSE 0

new_request(op, caller, payload) ==
  [op |-> op, caller |-> caller, payload |-> payload, pc |-> "returned",
   code |-> 0, body |-> None, plans |-> << >>, mirror |-> "none"]

\* The request is answered with `code` by a dependency or a check.
answered(request, code) ==
  requests' = Append(requests, [request EXCEPT !.code = code])

\* The local transaction is committed and the vendor mirror call is awaited.
mirroring(request, plan) ==
  requests' = Append(requests, [request EXCEPT !.pc = "mirroring", !.body = plan])

\* The database enforces work_plans.field_id -> fields.id: PostgreSQL does;
\* SQLite does not unless PRAGMA foreign_keys is set, and nothing sets it.
foreign_keys == db_url = "postgresql"

Max(S) == CHOOSE x \in S : \A y \in S : y <= x

\* The id an INSERT into work_plans gets: the next value of the sequence on
\* PostgreSQL, the largest rowid + 1 on SQLite.
next_plan_id ==
  IF db_url = "postgresql" THEN plan_seq + 1
  ELSE Max({ p.id : p \in work_plans } \cup {0}) + 1

\* The status of the payload ignored.
status_always_pending(value) == "pending"

\* payload.status or "pending"
status_or_pending(value) ==
  IF value = None \/ value = Some("") THEN "pending" ELSE value[1]

\* crud.create_work_plan: the row inserted.
create_work_plan(field_id, work_type, start_date, end_date, plan_status) ==
  [id |-> next_plan_id, field_id |-> field_id, type |-> work_type,
   start_date |-> start_date, end_date |-> end_date, status |-> plan_status]

\* create_plan without the comparison of line 228.
create_plan_any_dates(caller, payload) ==
  /\ Len(requests) < MaxRequests
  /\ LET request == new_request("create_plan", caller, payload)
         denied == require_role("operator", caller)
         plan == create_work_plan(payload.field_id, payload.type,
                                  payload.start_date, payload.end_date,
                                  status_or_pending(payload.status))
     IN IF denied # 0
        THEN answered(request, denied) /\ UNCHANGED <<work_plans, plan_seq>>
        ELSE IF foreign_keys /\ payload.field_id \notin DOMAIN fields
        THEN /\ answered(request, 500)
             /\ plan_seq' = plan_seq + 1
             /\ work_plans' = work_plans
        ELSE /\ work_plans' = work_plans \cup {plan}
             /\ plan_seq' = IF db_url = "postgresql" THEN plan.id ELSE plan_seq
             /\ mirroring(request, Some(plan))
  /\ UNCHANGED <<users, db_url, upstream, listed, gateway, backend>>

\* POST /work-plans up to its mirror call: 401/403 from require_role, 400
\* for dates out of order, 500 when the insert violates the foreign key (the
\* sequence value is spent), else the plan is inserted and committed.
create_plan(caller, payload) ==
  /\ Len(requests) < MaxRequests
  /\ LET request == new_request("create_plan", caller, payload)
         denied == require_role("operator", caller)
         plan == create_work_plan(payload.field_id, payload.type,
                                  payload.start_date, payload.end_date,
                                  status_or_pending(payload.status))
     IN IF denied # 0
        THEN answered(request, denied) /\ UNCHANGED <<work_plans, plan_seq>>
        ELSE IF payload.start_date > payload.end_date
        THEN answered(request, 400) /\ UNCHANGED <<work_plans, plan_seq>>
        ELSE IF foreign_keys /\ payload.field_id \notin DOMAIN fields
        THEN /\ answered(request, 500)
             /\ plan_seq' = plan_seq + 1
             /\ work_plans' = work_plans
        ELSE /\ work_plans' = work_plans \cup {plan}
             /\ plan_seq' = IF db_url = "postgresql" THEN plan.id ELSE plan_seq
             /\ mirroring(request, Some(plan))
  /\ UNCHANGED <<users, db_url, upstream, listed, gateway, backend>>

\* UPDATE work_plans SET status with no WHERE clause.
update_work_plan_status_everywhere(plan_id, new_status) ==
  { [p EXCEPT !.status = new_status] : p \in work_plans }

\* crud.update_work_plan_status: the table after the UPDATE.
update_work_plan_status(plan_id, new_status) ==
  { IF p.id = plan_id THEN [p EXCEPT !.status = new_status] ELSE p : p \in work_plans }

\* PUT /work-plans/{plan_id} up to its mirror call: 404 when the UPDATE
\* returns no row.
update_plan(caller, plan_id, new_status) ==
  /\ Len(requests) < MaxRequests
  /\ LET request == new_request("update_plan", caller,
                                [plan_id |-> plan_id, status |-> new_status])
         denied == require_role("operator", caller)
         returning == { p \in update_work_plan_status(plan_id, new_status) :
                          p.id = plan_id }
     IN IF denied # 0
        THEN answered(request, denied) /\ work_plans' = work_plans
        ELSE IF returning = {}
        THEN answered(request, 404) /\ work_plans' = work_plans
        ELSE /\ work_plans' = update_work_plan_status(plan_id, new_status)
             /\ \E plan \in returning : mirroring(request, Some(plan))
  /\ UNCHANGED <<users, plan_seq, db_url, upstream, listed, gateway, backend>>

\* crud.delete_work_plan: the table after the DELETE.
delete_work_plan(plan_id) == { p \in work_plans : p.id # plan_id }

\* DELETE /work-plans/{plan_id} up to its mirror call.
remove_plan(caller, plan_id) ==
  /\ Len(requests) < MaxRequests
  /\ LET request == new_request("remove_plan", caller, [plan_id |-> plan_id])
         denied == require_role("operator", caller)
     IN IF denied # 0
        THEN answered(request, denied) /\ work_plans' = work_plans
        ELSE /\ work_plans' = delete_work_plan(plan_id)
             /\ mirroring(request, None)
  /\ UNCHANGED <<users, plan_seq, db_url, upstream, listed, gateway, backend>>

\* Outcomes of the vendor mirror call: client.create_work_plan returns or
\* raises; JohnDeereClient has no update_work_plan and no delete_work_plan,
\* so those calls raise AttributeError.
MirrorOutcomes(op) ==
  IF op = "create_plan" THEN {"ok", "failed"} ELSE {"failed"}

\* The status of a served request.
success(op) ==
  IF op = "create_plan" THEN 201 ELSE IF op = "remove_plan" THEN 204 ELSE 200

\* A mirror failure that propagates: no except clause around the call.
mirror_returns_unhandled(q, outcome) ==
  /\ requests[q].pc = "mirroring"
  /\ outcome \in MirrorOutcomes(requests[q].op)
  /\ set_request(q, [requests[q] EXCEPT
                       !.pc = "returned", !.mirror = outcome,
                       !.code = IF outcome = "failed" THEN 500
                                ELSE success(requests[q].op)])
  /\ UNCHANGED <<users, work_plans, plan_seq, db_url, upstream, listed,
                 gateway, backend>>

\* The mirror call returns or raises; an exception is logged and dropped, and
\* the endpoint returns its result.
mirror_returns(q, outcome) ==
  /\ requests[q].pc = "mirroring"
  /\ outcome \in MirrorOutcomes(requests[q].op)
  /\ set_request(q, [requests[q] EXCEPT
                       !.pc = "returned", !.mirror = outcome,
                       !.code = success(requests[q].op)])
  /\ UNCHANGED <<users, work_plans, plan_seq, db_url, upstream, listed,
                 gateway, backend>>

\* crud.list_work_plans: the rows in the order of start_date; rows of equal
\* start_date come in the order the database chooses.
list_work_plans ==
  { rows \in [1..Cardinality(work_plans) -> work_plans] :
      /\ \A i, j \in DOMAIN rows : i # j => rows[i] # rows[j]
      /\ \A i, j \in DOMAIN rows : i < j => rows[i].start_date <= rows[j].start_date }

\* GET /work-plans
list_plans(caller) ==
  /\ Len(requests) < MaxRequests
  /\ LET request == new_request("list_plans", caller, << >>)
     IN IF get_current_user(caller) = None
        THEN answered(request, 401)
        ELSE \E rows \in list_work_plans :
               requests' = Append(requests, [request EXCEPT !.code = 200,
                                                            !.plans = rows])
  /\ UNCHANGED <<users, work_plans, plan_seq, db_url, upstream, listed,
                 gateway, backend>>

\* POST /scheduler/start.  The status it then awaits reads the ledger, which
\* no run has written to here.
post_scheduler_start(caller) ==
  /\ Len(requests) < MaxRequests
  /\ LET request == new_request("scheduler_start", caller, << >>)
         denied == require_role("admin", caller)
     IN IF denied # 0
        THEN answered(request, denied) /\ UNCHANGED backend
        ELSE start_scheduler(get_sessionmaker) /\ answered(request, 200)
  /\ UNCHANGED <<tables, gateway>>

\* POST /scheduler/stop
post_scheduler_stop(caller) ==
  /\ Len(requests) < MaxRequests
  /\ LET request == new_request("scheduler_stop", caller, << >>)
         denied == require_role("admin", caller)
     IN IF denied # 0
        THEN answered(request, denied) /\ UNCHANGED backend
        ELSE stop_scheduler /\ answered(request, 200)
  /\ UNCHANGED <<tables, gateway>>

\* POST /scheduler/interval
post_scheduler_interval(caller, seconds) ==
  /\ Len(requests) < MaxRequests
  /\ LET request == new_request("scheduler_interval", caller,
                                [seconds |-> seconds])
         denied == require_role("admin", caller)
     IN IF denied # 0
        THEN answered(request, denied) /\ UNCHANGED backend
        ELSE update_interval(seconds) /\ answered(request, 200)
  /\ UNCHANGED <<tables, gateway>>

\* The plan an earlier request stored.
PlanA ==
  [id |-> 1, field_id |-> "f1", type |-> "SIEMBRA", start_date |-> 1,
   end_date |-> 2, status |-> "pending"]

\* The application serving under the settings of the tests (interval 0, so
\* lifespan has started no scheduler) on either database, with an ADMIN, an
\* OPERATOR, the field f1 and one work plan stored.
ApiInit ==
  /\ _scheduler = None
  /\ _session_factory = None
  /\ _interval_seconds = TestInterval
  /\ _last_run_summary =
       [last_run |-> None, machines_synced |-> 0, fields_synced |-> 0]
  /\ schedulers = << >>
  /\ runs = << >>
  /\ machines = << >>
  /\ fields = upsert_fields(<< >>, field_values([values |-> <<FieldA>>])).rows
  /\ ledger = << >>
  /\ seq = 0
  /\ now = 0
  /\ called = [op |-> "lifespan", result |-> "no_start"]
  /\ new_client
  /\ users = << [id |-> 1, username |-> "ana", role |-> "admin"],
                [id |-> 2, username |-> "oto", role |-> "operator"] >>
  /\ work_plans = {PlanA}
  /\ plan_seq = 1
  /\ db_url \in {"sqlite", "postgresql"}
  /\ requests = << >>
  /\ upstream = [equipment |-> << >>, fields |-> << >>, page_size |-> 1]
  /\ listed = [equipment |-> None, fields |-> None]

ApiNext ==
  \/ \E caller \in Callers : \E payload \in PlanPayloads : create_plan(caller, payload)
  \/ \E caller \in Callers : \E plan_id \in PlanIds : \E st \in UpdateStatuses :
       update_plan(caller, plan_id, st)
  \/ \E caller \in Callers : \E plan_id \in PlanIds : remove_plan(caller, plan_id)
  \/ \E q \in 1..Len(requests) : \E outcome \in {"ok", "failed"} : mirror_returns(q, outcome)
  \/ \E caller \in Callers : list_plans(caller)
  \/ \E caller \in Callers : post_scheduler_start(caller)
  \/ \E caller \in Callers : post_scheduler_stop(caller)
  \/ \E caller \in Callers : \E seconds \in UpdateSeconds :
       post_scheduler_interval(caller, seconds)

ApiSpec == ApiInit /\ [][ApiNext]_vars

\* A request past its commit, awaiting its mirror call.
Mirroring(q) == requests[q].pc = "mirroring"

\* C23: a request awaits its mirror call only with its local change committed
\* (the plan created or updated is stored as returned, the plan deleted is
\* gone), and a mirror call that fails changes no stored plan and ends the
\* request with its body and the success status of its endpoint.
C23_MirrorFailureKeepsLocalChange ==
  /\ [][ (/\ Len(requests') = Len(requests) + 1
          /\ requests'[Len(requests')].pc = "mirroring")
           => LET request == requests'[Len(requests')]
              IN IF request.op = "remove_plan"
                 THEN \A p \in work_plans' : p.id # request.payload.plan_id
                 ELSE request.body # None /\ request.body[1] \in work_plans' ]_vars
  /\ [][ \A q \in 1..Len(requests) :
           (Mirroring(q) /\ requests'[q].mirror = "failed")
             => /\ work_plans' = work_plans
                /\ plan_seq' = plan_seq
                /\ requests'[q].pc = "returned"
                /\ requests'[q].body = requests[q].body
                /\ requests'[q].code =
                     (IF requests[q].op = "create_plan" THEN 201
                      ELSE IF requests[q].op = "update_plan" THEN 200
                      ELSE 204) ]_vars

\* A creation and a deletion have both returned with success after their
\* mirror calls failed; the plan created is stored.
C23_Witness ==
  /\ Len(requests) = 2
  /\ requests[1].op = "create_plan" /\ requests[1].mirror = "failed"
  /\ requests[1].code = 201 /\ requests[1].body[1] \in work_plans
  /\ requests[2].op = "remove_plan" /\ requests[2].mirror = "failed"
  /\ requests[2].code = 204 /\ requests[2].payload.plan_id = 1
  /\ PlanA \notin work_plans

\* The step appends a request of endpoint op.
Arrives(op) ==
  /\ Len(requests') = Len(requests) + 1
  /\ requests'[Len(requests')].op = op

\* The caller of the request the step appends is an OPERATOR or an ADMIN.
ByOperatorOrAdmin ==
  get_current_user(requests'[Len(requests')].caller) \in {Some("operator"), Some("admin")}

\* The step stores the plan of the request it appends: a row of the payload's
\* field, type and dates and of status plan_status, under an id larger than
\* every stored id, and the request goes on to its mirror call with that row
\* as its body.
Persists(plan_status) ==
  LET request == requests'[Len(requests')]
  IN /\ request.pc = "mirroring"
     /\ request.body # None
     /\ LET plan == request.body[1]
        IN /\ work_plans' = work_plans \cup {plan}
           /\ \A p \in work_plans : p.id < plan.id
           /\ plan.field_id = request.payload.field_id
           /\ plan.type = request.payload.type
           /\ plan.start_date = request.payload.start_date
           /\ plan.end_date = request.payload.end_date
           /\ plan.status = plan_status

\* Every list returned holds exactly the stored plans, and a stored id goes
\* away only in the step of a deletion request that names it.
ListedUntilDeleted ==
  /\ [][ (Arrives("list_plans") /\ requests'[Len(requests')].code = 200)
           => { requests'[Len(requests')].plans[i] :
                  i \in DOMAIN requests'[Len(requests')].plans } = work_plans ]_vars
  /\ [][ \A p \in work_plans :
           (\A r \in work_plans' : r.id # p.id)
             => /\ Arrives("remove_plan")
                /\ requests'[Len(requests')].payload.plan_id = p.id ]_vars

C25_BadDatesRejected ==
  [][ (/\ Arrives("create_plan")
       /\ requests'[Len(requests')].payload.start_date
            > requests'[Len(requests')].payload.end_date)
        => /\ requests'[Len(requests')].pc = "returned"
           /\ requests'[Len(requests')].code =
                (IF ByOperatorOrAdmin THEN 400
                 ELSE IF requests'[Len(requests')].caller = None THEN 401
                 ELSE 403)
           /\ requests'[Len(requests')].mirror = "none"
           /\ requests'[Len(requests')].body = None
           /\ work_plans' = work_plans
           /\ plan_seq' = plan_seq ]_vars

\* The ADMIN's request with dates out of order was answered 400 and the
\* stored plans are those of the start.
C25_Witness ==
  /\ Len(requests) = 1
  /\ requests[1].op = "create_plan" /\ requests[1].caller = Some("ana")
  /\ requests[1].payload.start_date = 2 /\ requests[1].payload.end_date = 1
  /\ requests[1].code = 400 /\ requests[1].mirror = "none"
  /\ work_plans = {PlanA}

\* C26: every stored work plan references a stored Field row.
C26_PlansReferenceFields ==
  \A p \in work_plans : p.field_id \in DOMAIN fields

\* C27: a status update by an OPERATOR or ADMIN that names a stored plan
\* replaces that row by the same row with the new status, leaves every other
\* row as it is and goes on to return the new row with 200; one that names no
\* stored plan is answered 404, changes no row and makes no mirror call.
C27_UpdateChangesStatusOnly ==
  /\ [][ (Arrives("update_plan") /\ ByOperatorOrAdmin)
           => LET request == requests'[Len(requests')]
                  named == { p \in work_plans : p.id = request.payload.plan_id }
              IN IF named = {}
                 THEN /\ request.pc = "returned" /\ request.code = 404
                      /\ request.mirror = "none" /\ request.body = None
                      /\ work_plans' = work_plans
                 ELSE /\ request.pc = "mirroring"
                      /\ \E p \in named :
                           /\ request.body = Some([p EXCEPT !.status = request.payload.status])
                           /\ work_plans' = (work_plans \ {p}) \cup {request.body[1]} ]_vars
  /\ [][ \A q \in 1..Len(requests) :
           (requests[q].op = "update_plan" /\ Mirroring(q) /\ ~Mirroring(q)')
             => /\ requests'[q].code = 200
                /\ requests'[q].body = requests[q].body
                /\ requests'[q].body[1].id = requests[q].payload.plan_id
                /\ requests'[q].body[1].status = requests[q].payload.status ]_vars

\* With the plan created by the first request stored under id 2, the update
\* of plan 1 has returned 200 with id 1 and the new status; plan 2 is as
\* created.
C27_Witness ==
  /\ Len(requests) = 2
  /\ requests[1].op = "create_plan" /\ requests[1].code = 201
  /\ requests[2].op = "update_plan" /\ requests[2].code = 200
  /\ requests[2].body = Some([PlanA EXCEPT !.status = "completed"])
  /\ work_plans = {[PlanA EXCEPT !.status = "completed"], requests[1].body[1]}
  /\ requests[1].body[1].id = 2

SchedulerRequests == {"scheduler_start", "scheduler_stop", "scheduler_interval"}
PlanMutations == {"create_plan", "update_plan", "remove_plan"}

\* C28: a scheduler start, stop or interval request of a caller that is not
\* an ADMIN is answered 401 or 403 and leaves the scheduler, its timer, the
\* interval and the running flag as they were, and these change only in the
\* step of such a request by an ADMIN; a work-plan creation, update or
\* deletion of a caller that is neither OPERATOR nor ADMIN is answered 401 or
\* 403 and changes no stored plan.
C28_RolesGuardMutations ==
  /\ [][ (/\ Len(requests') = Len(requests) + 1
          /\ requests'[Len(requests')].op \in SchedulerRequests
          /\ get_current_user(requests'[Len(requests')].caller) # Some("admin"))
           => /\ requests'[Len(requests')].code \in {401, 403}
              /\ requests'[Len(requests')].pc = "returned"
              /\ status'.running = status.running
              /\ _interval_seconds' = _interval_seconds
              /\ LiveTimers' = LiveTimers
              /\ UNCHANGED backend ]_vars
  /\ [][ (<<_scheduler, schedulers, _interval_seconds, runs>>'
            # <<_scheduler, schedulers, _interval_seconds, runs>>)
           => /\ Len(requests') = Len(requests) + 1
              /\ requests'[Len(requests')].op \in SchedulerRequests
              /\ get_current_user(requests'[Len(requests')].caller) = Some("admin")
              /\ requests'[Len(requests')].code = 200 ]_vars
  /\ [][ (/\ Len(requests') = Len(requests) + 1
          /\ requests'[Len(requests')].op \in PlanMutations
          /\ ~ByOperatorOrAdmin)
           => /\ requests'[Len(requests')].code \in {401, 403}
              /\ requests'[Len(requests')].pc = "returned"
              /\ requests'[Len(requests')].mirror = "none"
              /\ work_plans' = work_plans
              /\ plan_seq' = plan_seq ]_vars

\* The ADMIN has started the scheduler and the OPERATOR's stop was answered
\* 403: the scheduler still runs, with its timer.
C28_Witness ==
  /\ Len(requests) = 2
  /\ requests[1].op = "scheduler_start" /\ requests[1].caller = Some("ana")
  /\ requests[1].code = 200
  /\ requests[2].op = "scheduler_stop" /\ requests[2].caller = Some("oto")
  /\ requests[2].code = 403
  /\ status.running
  /\ Cardinality(LiveTimers) = 1

\* Runs whose transaction was committed.
Committed == { r \in RunIds : runs[r].pc = "done" }

\* C29: the ledger holds one row per committed run; a step that commits a run
\* appends exactly one row, the one the run flushed, and no step of the
\* scheduler, of a run or of the status changes or removes a row.
C29_LedgerAppendOnly ==
  /\ [](Len(ledger) = Cardinality(Committed))
  /\ [][ /\ Len(ledger') >= Len(ledger)
         /\ \A i \in 1..Len(ledger) : ledger'[i] = ledger[i] ]_vars
  /\ [][ \A r \in RunIds :
           (runs[r].pc = "flushed" /\ runs'[r].pc = "done")
             => ledger' = Append(ledger, runs[r].session[1].row) ]_vars
  /\ [][ Len(ledger') # Len(ledger) => Committed' # Committed ]_vars

\* Two runs have committed and a status call has read the ledger of two rows.
C29_Witness ==
  /\ Len(ledger) = 2
  /\ Cardinality(Committed) = 2
  /\ ledger[1].id = 1 /\ ledger[2].id = 2
  /\ ~is_running

\* C30: while the scheduler is stopped no timer can fire, a stop leaves no
\* live timer behind, every run a timer creates belongs to the scheduler that
\* is running, and the only step that creates a run while stopped is a start.
C30_NoTickAfterStop ==
  /\ [](~is_running => /\ LiveTimers = {}
                       /\ \A i \in 1..Len(schedulers) : ~ENABLED tick(i))
  /\ [][ called' = [op |-> "stop_scheduler", result |-> "stopped"]
           /\ called # called' => LiveTimers' = {} /\ ~is_running' ]_vars
  /\ [][ Len(runs') > Len(runs)
           => IF runs'[Len(runs')].origin = "tick"
              THEN is_running /\ runs'[Len(runs')].sched = _scheduler
              ELSE /\ ~is_running /\ is_running'
                   /\ called' = [op |-> "start_scheduler", result |-> "started"] ]_vars

\* Stopped after a tick: the run the timer created is still in flight, past
\* its fetches, and the timer that created it is gone.
C30_Witness ==
  /\ called = [op |-> "stop_scheduler", result |-> "stopped"]
  /\ ~is_running
  /\ LiveTimers = {}
  /\ \E r \in RunIds : runs[r].origin = "tick" /\ runs[r].pc = "fetched"

\* The period, in seconds, of the live sync timer of scheduler i.
Period(i) == schedulers[i].sync_job[1].interval_length

\* C31: whenever the coordinator is RUNNING its scheduler holds the sync
\* timer, and the period of that timer is the interval status reports.
C31_PeriodIsReportedInterval ==
  is_running
    => /\ schedulers[_scheduler[1]].sync_job # None
       /\ Period(_scheduler[1]) = status.interval_seconds

\* C31, for the intervals that are a period: a RUNNING coordinator that
\* reports a positive interval has its timer at that period, and an
\* update_interval while STOPPED only stores the value and stays STOPPED.
C31_PositivePeriodIsReportedInterval ==
  /\ [](is_running /\ status.interval_seconds > 0
          => Period(_scheduler[1]) = status.interval_seconds)
  /\ [][ \A seconds \in UpdateSeconds :
           (~is_running /\ update_interval(seconds))
             => /\ ~status'.running
                /\ status'.interval_seconds = seconds
                /\ schedulers' = schedulers ]_vars


(***************************************************************************)
(* The mirrored tables under runs that overlap and under answers of the    *)
(* vendor that name an id more than once.                                  *)
(***************************************************************************)
\* A second machine and a second field of the organisation.
EquipmentC == [id |-> "m2", displayName |-> Some("Cosechadora")]

FieldC == [id |-> "f2", name |-> Some("Campo 2")]

\* Answers that repeat an id: m1 twice with different values, m2 on both
\* sides of m1, f1 twice.
RepeatedEquipment ==
  { [values |-> <<EquipmentA, EquipmentB>>],
    [values |-> <<EquipmentC, EquipmentA, EquipmentC>>] }

RepeatedFields ==
  { [values |-> <<FieldA, FieldB>>], [values |-> <<FieldC>>] }

\* The vendor ids of a normalised list.
ids(items) == { items[i].id : i \in 1..Len(items) }

\* A process configured with the default interval and an empty database.
MirrorInit == SyncInit /\ _interval_seconds = DefaultInterval

MirrorNext ==
  \/ start_scheduler(Some(Factory)) /\ UNCHANGED requests
  \/ \E i \in 1..Len(schedulers) : tick(i)
  \/ \E r \in 1..Len(runs) : sync_begin(r)
  \/ \E r \in 1..Len(runs) : fetch_equipment_ok(r)
  \/ \E r \in 1..Len(runs) : fetch_fields_ok(r)
  \/ \E r \in 1..Len(runs) : sync_persist(r)
  \/ \E r \in 1..Len(runs) : sync_commit(r)
  \/ \E machines_data \in RepeatedEquipment, fields_data \in RepeatedFields :
       run_once(machines_data, fields_data, now, now)

MirrorSpec == MirrorInit /\ [][MirrorNext]_vars

\* C32: a Machine or Field row is never removed, so the mirrored ids only
\* grow; a commit adds exactly one row for each INSERT of its session and
\* each of those is of an id that had no row, whatever other runs committed
\* meanwhile; a run whose lists repeat an id leaves one row for that id, with
\* the values of its last occurrence, while it counts every occurrence.
C32_OneRowPerVendorId ==
  /\ [][ /\ DOMAIN machines \subseteq DOMAIN machines'
         /\ DOMAIN fields \subseteq DOMAIN fields' ]_vars
  /\ [][ \A r \in RunIds :
           (runs[r].pc = "flushed" /\ runs'[r].pc = "done")
             => LET session == runs[r].session[1]
                IN  /\ session.machines.new \cap DOMAIN machines = {}
                    /\ session.fields.new \cap DOMAIN fields = {}
                    /\ DOMAIN machines' = DOMAIN machines \cup session.machines.new
                    /\ DOMAIN fields' = DOMAIN fields \cup session.fields.new
                    /\ Cardinality(DOMAIN machines') =
                         Cardinality(DOMAIN machines)
                           + Cardinality(session.machines.new)
                    /\ Cardinality(DOMAIN fields') =
                         Cardinality(DOMAIN fields)
                           + Cardinality(session.fields.new) ]_vars
  /\ [][ \A machines_data \in RepeatedEquipment, fields_data \in RepeatedFields :
           run_once(machines_data, fields_data, now, now)
             => LET mv == machine_values(machines_data)
                      fv == field_values(fields_data)
                  IN  /\ DOMAIN machines' = DOMAIN machines \cup ids(mv)
                      /\ DOMAIN fields' = DOMAIN fields \cup ids(fv)
                      /\ \A i \in 1..Len(mv) :
                           (\A j \in (i + 1)..Len(mv) : mv[j].id # mv[i].id)
                             => machines'[mv[i].id] = Columns(mv[i])
                      /\ ledger'[Len(ledger')].machines_synced = Len(mv)
                      /\ ledger'[Len(ledger')].fields_synced = Len(fv) ]_vars

\* A run whose list named m1 twice has committed: it counted two machines and
\* left one row, with the values of the second occurrence; a run that had
\* flushed its INSERT of m1 before that commit has failed on the primary key.
C32_Witness ==
  /\ DOMAIN machines = {"m1"}
  /\ DOMAIN fields = {"f1"}
  /\ Len(ledger) = 1
  /\ ledger[1].machines_synced = 2
  /\ machines["m1"].name = None
  /\ \E r \in RunIds : runs[r].pc = "failed"


(***************************************************************************)
(* Calls of _request that refresh the token of one client at the same      *)
(* time (GatewaySpec).                                                     *)
(***************************************************************************)
\* Calls whose API request has gone out with a token.
Sent == { c \in 1..Len(calls) : calls[c].bearer # None }

=============================================================================
